---------------------------- MODULE Spec2Model ----------------------------
(***************************************************************************)
(* A model of diamond, a tool for stacked git branches.                    *)
(*                                                                         *)
(*   Spec         the branches table of src/src/database.rs:               *)
(*                set_root_branch, create_branch, get_branches_in_stack    *)
(*   SpecMigrate  Database::migrate, statement by statement                *)
(*   SpecGit      git::pull under its BranchGuard (src/src/git.rs)         *)
(*   SpecCmd      the commands of src/src/main.rs: init, create, track,    *)
(*                restack, sync, submit                                    *)
(***************************************************************************)
EXTENDS Integers, Sequences, FiniteSets, TLC

VARIABLES
    branches,   \* table branches: rows [name, parent] in rowid order
    last,       \* the last Database call: its arguments and what it returned
    schema,             \* committed schema objects of the database file
    current_revision,   \* committed migration.current_revision: {} (no row) or {n}
    tx,                 \* the open transaction of migrate and what it has written
    mpc,                \* where migrate stands
    revision,           \* migrate's loop index into MIGRATIONS
    applied,            \* ordinals of the migration steps committed so far, in order
    runs,               \* migrate runs started so far
    runLog,             \* one entry per migrate run that ended
    head,               \* the branch the working copy is on
    gpc,                \* where git::pull stands
    guard,              \* pull's BranchGuard: original_branch is {} (None) or {name}
    target,             \* pull's argument `branch`
    startHead,          \* the branch the working copy was on when pull was called
    pullStatus,         \* exit status of `git pull --ff-only`
    gresult,            \* what pull returned
    restores,           \* checkouts issued by the guard during this call
    checkoutFailed,     \* whether a `git checkout` of this call failed
    acquired,           \* whether using_branch built its guard in this call
    remote,             \* repo_info.remote: {} (no row) or {name}
    cpc,                \* where the running command stands
    cmd,                \* the command: its name, arguments, and the state it began in
    cstack,             \* the stack the command got from get_branches_in_stack
    plan,               \* the git operations the command's loop will ask for, in order
    issued,             \* the git operations asked for so far, each with its outcome
    links,              \* the review links printed so far
    cguard,             \* the command's own BranchGuard
    cresult,            \* how the command ended
    crestoreFailed      \* whether the checkout of the command's guard failed

storeVars == <<branches, last>>

migVars == <<schema, current_revision, tx, mpc, revision, applied, runs, runLog>>

pullVars == <<gpc, guard, target, startHead, pullStatus, gresult, restores,
              checkoutFailed, acquired>>

gitVars == <<head, pullVars>>

cmdVars == <<remote, cpc, cmd, cstack, plan, issued, links, cguard, cresult,
             crestoreFailed>>

\* A Database call leaves everything but the store alone; migrate leaves the
\* rows of the store and the working copy alone; git leaves the database alone.
StoreFrame == UNCHANGED <<migVars, gitVars, cmdVars>>

MigFrame == UNCHANGED <<storeVars, gitVars, cmdVars>>

GitFrame == UNCHANGED <<storeVars, migVars, cmdVars>>

\* A command works on the rows, the remote and the working copy.
CmdFrame == UNCHANGED <<last, migVars, pullVars>>

(***************************************************************************)
(* Bounds and values                                                       *)
(***************************************************************************)
\* Branch names the callers draw from.
Names == {"main", "a", "b", "c", "d"}

\* The table holds at most this many rows.
MaxBranches == 4

\* migrate is run at most this many times (Database::new runs it once per command).
MaxRuns == 3

\* MIGRATIONS.len()
NumMigrations == 3

\* SQL NULL in column parent.
NULL == "NULL"

Row(name, parent) == [name |-> name, parent |-> parent]

\* Where a statement of a call may fail (an I/O or SQLite error).
StoreFaults == {"none", "insert", "commit"}

Range(s) == {s[i] : i \in 1..Len(s)}

(***************************************************************************)
(* Queries on the table                                                    *)
(***************************************************************************)
\* SELECT name FROM branches WHERE parent IS NULL
RootRows(tbl) == SelectSeq(tbl, LAMBDA r : r.parent = NULL)

\* SELECT COUNT(*) FROM branches WHERE parent = ?
NumChildren(tbl, name) == Len(SelectSeq(tbl, LAMBDA r : r.parent = name))

\* SELECT COUNT(*) FROM branches WHERE name = ?
CountNamed(tbl, name) == Len(SelectSeq(tbl, LAMBDA r : r.name = name))

\* DELETE that removes nothing.
DeleteNamed_Kept(tbl, name) == tbl

\* DELETE FROM branches WHERE name = ?
DeleteNamed(tbl, name) == SelectSeq(tbl, LAMBDA r : r.name # name)

\* get_root_branch: the first row with a NULL parent, if any.
GetRootBranch(tbl) ==
    IF RootRows(tbl) = <<>> THEN NULL ELSE RootRows(tbl)[1].name

\* get_parent: None both for an untracked branch and for the root.
GetParent(tbl, name) ==
    LET rows == SelectSeq(tbl, LAMBDA r : r.name = name)
    IN  IF rows = <<>> THEN NULL ELSE rows[1].parent


(***************************************************************************)
(* A rusqlite Transaction dropped without commit rolls back: every early   *)
(* return (`?`, bail!, ensure!) leaves the table as it was before the call.*)
(***************************************************************************)
\* The uncommitted writes reach the file.
Rollback_Kept(before, pending) == pending

Rollback(before, pending) == before

CallResult(tbl, err) == [table |-> tbl, err |-> err]

(***************************************************************************)
(* Database::set_root_branch                                               *)
(***************************************************************************)
\* The child check left out, and the child check off by one.
HasActiveChildren_Skipped(tbl, existing) == FALSE

HasActiveChildren_OffByOne(tbl, existing) == NumChildren(tbl, existing) > 1

\* The check on the existing root's children (num_children > 0).
HasActiveChildren(tbl, existing) == NumChildren(tbl, existing) > 0

\* The statements after the root lookup: the child check, DELETE, INSERT, commit.
ReplaceRoot(tbl, existing, root_branch, fault) ==
    IF existing # NULL /\ HasActiveChildren(tbl, existing)
    THEN CallResult(Rollback(tbl, tbl), "RootBranchHasChildren")
    ELSE
        LET deleted == IF existing # NULL THEN DeleteNamed(tbl, existing) ELSE tbl
        IN  IF fault = "insert"
            THEN CallResult(Rollback(tbl, deleted), "SqliteFailure")
            ELSE IF CountNamed(deleted, root_branch) > 0
            THEN CallResult(Rollback(tbl, deleted), "BranchAlreadyTracked")
            ELSE
                LET inserted == Append(deleted, Row(root_branch, NULL))
                IN  IF fault = "commit"
                    THEN CallResult(Rollback(tbl, inserted), "SqliteFailure")
                    ELSE CallResult(inserted, "Ok")

SetRootBranch(tbl, root_branch, fault) ==
    LET root_branches == RootRows(tbl)
    IN  IF ~(Len(root_branches) < 2)
        THEN CallResult(Rollback(tbl, tbl), "MultipleRootsDetected")
        ELSE
            LET existing_root_branch ==
                    IF root_branches = <<>> THEN NULL
                    ELSE root_branches[Len(root_branches)].name
            IN  ReplaceRoot(tbl, existing_root_branch, root_branch, fault)

(***************************************************************************)
(* Database::create_branch                                                 *)
(***************************************************************************)
\* count >= 0, true of every name.
CurrentBranchExists_Always(tbl, current_branch) == CountNamed(tbl, current_branch) >= 0

\* count > 0 for SELECT COUNT(*) FROM branches WHERE name = current_branch
CurrentBranchExists(tbl, current_branch) == CountNamed(tbl, current_branch) > 0

CreateBranch(tbl, current_branch, new_branch, fault) ==
    IF ~CurrentBranchExists(tbl, current_branch)
    THEN CallResult(Rollback(tbl, tbl), "UntrackedParent")
    ELSE IF fault = "insert"
    THEN CallResult(Rollback(tbl, tbl), "SqliteFailure")
    ELSE IF CountNamed(tbl, new_branch) > 0
    THEN CallResult(Rollback(tbl, tbl), "BranchAlreadyTracked")
    ELSE
        LET inserted == Append(tbl, Row(new_branch, current_branch))
        IN  IF fault = "commit"
            THEN CallResult(Rollback(tbl, inserted), "SqliteFailure")
            ELSE CallResult(inserted, "Ok")

(***************************************************************************)
(* Database::get_branches_in_stack: the recursive common table expression  *)
(* stack_branches(name, parent, level), as SQLite evaluates it: a FIFO     *)
(* queue of rows, UNION dropping a row that was produced before.           *)
(***************************************************************************)
StackRow(name, parent, level) == [name |-> name, parent |-> parent, level |-> level]

\* SELECT branches.name, branches.parent, stack_branches.level + 1
\*   WHERE branches.parent = stack_branches.name
ChildRows(tbl, r) ==
    LET m == SelectSeq(tbl, LAMBDA x : x.parent # NULL /\ x.parent = r.name)
    IN  [i \in 1..Len(m) |-> StackRow(m[i].name, m[i].parent, r.level + 1)]

\* The second recursive SELECT left out.
ParentRows_None(tbl, r) == <<>>

\* SELECT branches.name, branches.parent, stack_branches.level - 1
\*   WHERE stack_branches.parent = branches.name
ParentRows(tbl, r) ==
    LET m == SelectSeq(tbl, LAMBDA x : r.parent # NULL /\ x.name = r.parent)
    IN  [i \in 1..Len(m) |-> StackRow(m[i].name, m[i].parent, r.level - 1)]

RECURSIVE Enqueue(_, _, _)
Enqueue(queue, seen, cand) ==
    IF cand = <<>> THEN [queue |-> queue, seen |-> seen]
    ELSE IF Head(cand) \in seen THEN Enqueue(queue, seen, Tail(cand))
    ELSE Enqueue(Append(queue, Head(cand)), seen \cup {Head(cand)}, Tail(cand))

RECURSIVE RunRecursive(_, _, _, _)
RunRecursive(tbl, queue, seen, out) ==
    IF queue = <<>> THEN out
    ELSE
        LET r == Head(queue)
            e == Enqueue(Tail(queue), seen, ChildRows(tbl, r) \o ParentRows(tbl, r))
        IN  RunRecursive(tbl, e.queue, e.seen, Append(out, r))

\* VALUES(?, ?, 0) bound to (current_branch, current_branch), then the recursion.
StackBranches(tbl, current_branch) ==
    LET seed == StackRow(current_branch, current_branch, 0)
    IN  RunRecursive(tbl, <<seed>>, {seed}, <<>>)

\* The filter without its parent IS NOT NULL.
StackFilter_KeepRoot(rows) == SelectSeq(rows, LAMBDA r : r.name # r.parent)

\* WHERE name <> parent AND parent IS NOT NULL
StackFilter(rows) == SelectSeq(rows, LAMBDA r : r.name # r.parent /\ r.parent # NULL)

\* SELECT DISTINCT name, parent: the first row of each (name, parent) is kept,
\* and with it the level that row carries into the sort.
RECURSIVE DistinctFirst(_, _)
DistinctFirst(rows, seenPairs) ==
    IF rows = <<>> THEN <<>>
    ELSE
        LET r == Head(rows)
            k == <<r.name, r.parent>>
        IN  IF k \in seenPairs THEN DistinctFirst(Tail(rows), seenPairs)
            ELSE <<r>> \o DistinctFirst(Tail(rows), seenPairs \cup {k})

StackLevels(tbl, current_branch) ==
    DistinctFirst(StackFilter(StackBranches(tbl, current_branch)), {})

\* ORDER BY level DESC.
OrderByLevel_Desc(rows) ==
    {s \in [1..Len(rows) -> Range(rows)] :
        /\ \A r \in Range(rows) : \E i \in 1..Len(rows) : s[i] = r
        /\ \A i, j \in 1..Len(rows) : i < j => s[i].level >= s[j].level}

\* ORDER BY level ASC: every arrangement of the rows with levels ascending; SQL
\* leaves the order of rows with equal levels open.
OrderByLevel(rows) ==
    {s \in [1..Len(rows) -> Range(rows)] :
        /\ \A r \in Range(rows) : \E i \in 1..Len(rows) : s[i] = r
        /\ \A i, j \in 1..Len(rows) : i < j => s[i].level <= s[j].level}

\* struct Branch { name, parent }
Branch(r) == [name |-> r.name, parent |-> r.parent]

\* The results get_branches_in_stack may return.
GetBranchesInStack(tbl, current_branch) ==
    {[i \in 1..Len(s) |-> Branch(s[i])] : s \in OrderByLevel(StackLevels(tbl, current_branch))}

(***************************************************************************)
(* The calls                                                               *)
(***************************************************************************)
\* A call as its caller sees it, with the table as it was when the call began.
Call(op, arg1, arg2, before, err, rows) ==
    [op |-> op, arg1 |-> arg1, arg2 |-> arg2, before |-> before, err |-> err,
     rows |-> rows]

Idle == Call("idle", "", "", <<>>, "Ok", <<>>)

DoSetRootBranch ==
    /\ last = Idle
    /\ StoreFrame
    /\ \E root_branch \in Names, fault \in StoreFaults :
        LET res == SetRootBranch(branches, root_branch, fault)
        IN  /\ Len(res.table) <= MaxBranches
            /\ branches' = res.table
            /\ last' = Call("set_root_branch", root_branch, "", branches, res.err, <<>>)

DoCreateBranch ==
    /\ last = Idle
    /\ StoreFrame
    /\ \E current_branch \in Names, new_branch \in Names, fault \in StoreFaults :
        LET res == CreateBranch(branches, current_branch, new_branch, fault)
        IN  /\ Len(res.table) <= MaxBranches
            /\ branches' = res.table
            /\ last' = Call("create_branch", current_branch, new_branch, branches, res.err, <<>>)

DoGetBranchesInStack ==
    /\ last = Idle
    /\ StoreFrame
    /\ \E current_branch \in Names :
        \E rows \in GetBranchesInStack(branches, current_branch) :
            /\ last' = Call("get_branches_in_stack", current_branch, "", branches, "Ok", rows)
            /\ UNCHANGED branches

\* The caller has the call's result and the store is ready for the next call.
Return ==
    /\ last # Idle
    /\ StoreFrame
    /\ last' = Idle
    /\ UNCHANGED branches

StoreInit ==
    /\ branches = <<>>
    /\ last = Idle

StoreNext == DoSetRootBranch \/ DoCreateBranch \/ DoGetBranchesInStack \/ Return

(***************************************************************************)
(* Database::migrate                                                       *)
(***************************************************************************)
\* What MIGRATIONS[k] adds to the schema.
MigrationObject(k) ==
    CASE k = 0 -> "repo_info"
      [] k = 1 -> "branches"
      [] OTHER -> "branches.submitted"

\* CREATE TABLE IF NOT EXISTS cannot fail on an existing table; ALTER TABLE
\* branches ADD submitted fails without the table and on a duplicate column.
StatementFails(objects, k) ==
    k = 2 /\ ("branches" \notin objects \/ "branches.submitted" \in objects)

\* The skip test with > for >=.
SkipStep_Strict(current, rev) == \E c \in current : c > rev

\* The skip test left out.
SkipStep_Never(current, rev) == FALSE

\* if let Some(current_revision) = current_revision { if current_revision >= revision { continue } }
SkipStep(current, rev) == \E c \in current : c >= rev

Durable == [schema |-> schema, current_revision |-> current_revision]

NoTx == [active |-> FALSE, schema |-> {}, current_revision |-> {}]

OpenTx(db) == [active |-> TRUE, schema |-> db.schema, current_revision |-> db.current_revision]

TxState == [schema |-> tx.schema, current_revision |-> tx.current_revision]

\* How a run ended: its result, where it stood, and the file it left.
RunEntry(result, db, steps) ==
    [result |-> result, at |-> mpc, step |-> revision, schema |-> db.schema,
     current_revision |-> db.current_revision, applied |-> steps]

\* The run ends with `result`, its transaction (if any) dropped: the database
\* file holds `db`.
EndRun(result, db) ==
    /\ schema' = db.schema
    /\ current_revision' = db.current_revision
    /\ tx' = NoTx
    /\ mpc' = "idle"
    /\ runLog' = Append(runLog, RunEntry(result, db, applied))
    /\ UNCHANGED <<revision, applied, runs>>

\* Database::new calls migrate: CREATE TABLE IF NOT EXISTS migration, outside
\* any transaction.
MigrateStart ==
    /\ mpc = "idle"
    /\ MigFrame
    /\ runs < MaxRuns
    /\ runs' = runs + 1
    /\ \E ok \in BOOLEAN :
        IF ok
        THEN /\ schema' = schema \cup {"migration"}
             /\ mpc' = "begin"
             /\ revision' = 0
             /\ UNCHANGED <<current_revision, tx, applied, runLog>>
        ELSE /\ mpc' = "idle"
             /\ runLog' = Append(runLog, RunEntry("SqliteFailure", Durable, applied))
             /\ UNCHANGED <<schema, current_revision, tx, revision, applied>>

\* The loop is over: Ok(()).
MigrateReturn ==
    /\ mpc = "begin"
    /\ MigFrame
    /\ revision = NumMigrations
    /\ EndRun("Ok", Durable)

\* let transaction = self.conn.transaction()?
BeginTransaction ==
    /\ mpc = "begin"
    /\ MigFrame
    /\ revision < NumMigrations
    /\ \E ok \in BOOLEAN :
        IF ok
        THEN /\ tx' = OpenTx(Durable)
             /\ mpc' = "read"
             /\ UNCHANGED <<schema, current_revision, revision, applied, runs, runLog>>
        ELSE EndRun("SqliteFailure", Durable)

\* SELECT current_revision FROM migration WHERE id = 1, and the skip test.
ReadRevision ==
    /\ mpc = "read"
    /\ MigFrame
    /\ \E ok \in BOOLEAN :
        IF ~ok THEN EndRun("SqliteFailure", Rollback(Durable, TxState))
        ELSE IF SkipStep(tx.current_revision, revision)
        THEN /\ schema' = Rollback(Durable, TxState).schema
             /\ current_revision' = Rollback(Durable, TxState).current_revision
             /\ tx' = NoTx
             /\ revision' = revision + 1
             /\ mpc' = "begin"
             /\ UNCHANGED <<applied, runs, runLog>>
        ELSE /\ mpc' = "exec"
             /\ UNCHANGED <<schema, current_revision, tx, revision, applied, runs, runLog>>

\* transaction.execute(migration, ())?
ExecuteMigration ==
    /\ mpc = "exec"
    /\ MigFrame
    /\ \E ok \in BOOLEAN :
        IF ~ok THEN EndRun("SqliteFailure", Rollback(Durable, TxState))
        ELSE IF StatementFails(tx.schema, revision)
        THEN EndRun("SqlError", Rollback(Durable, TxState))
        ELSE /\ tx' = [tx EXCEPT !.schema = @ \cup {MigrationObject(revision)}]
             /\ mpc' = "update"
             /\ UNCHANGED <<schema, current_revision, revision, applied, runs, runLog>>

\* INSERT OR REPLACE INTO migration (id, current_revision) VALUES (1, revision)
UpdateRevision ==
    /\ mpc = "update"
    /\ MigFrame
    /\ \E ok \in BOOLEAN :
        IF ~ok THEN EndRun("SqliteFailure", Rollback(Durable, TxState))
        ELSE /\ tx' = [tx EXCEPT !.current_revision = {revision}]
             /\ mpc' = "commit"
             /\ UNCHANGED <<schema, current_revision, revision, applied, runs, runLog>>

\* transaction.commit()?
CommitStep ==
    /\ mpc = "commit"
    /\ MigFrame
    /\ \E ok \in BOOLEAN :
        IF ~ok THEN EndRun("SqliteFailure", Rollback(Durable, TxState))
        ELSE /\ schema' = tx.schema
             /\ current_revision' = tx.current_revision
             /\ tx' = NoTx
             /\ applied' = Append(applied, revision)
             /\ revision' = revision + 1
             /\ mpc' = "begin"
             /\ UNCHANGED <<runs, runLog>>

\* The process dies inside migrate: an open transaction is never committed.
Crash ==
    /\ mpc # "idle"
    /\ MigFrame
    /\ EndRun("Crash", IF tx.active THEN Rollback(Durable, TxState) ELSE Durable)

\* A database file that does not exist yet.
MigInit ==
    /\ schema = {}
    /\ current_revision = {}
    /\ tx = NoTx
    /\ mpc = "idle"
    /\ revision = 0
    /\ applied = <<>>
    /\ runs = 0
    /\ runLog = <<>>

\* Database::new returned Ok: every migration is applied.
MigDone ==
    /\ schema = {"migration"} \cup {MigrationObject(k) : k \in 0..(NumMigrations - 1)}
    /\ current_revision = {NumMigrations - 1}
    /\ tx = NoTx
    /\ mpc = "idle"
    /\ revision = NumMigrations
    /\ applied = [k \in 1..NumMigrations |-> k - 1]
    /\ runs = 1
    /\ runLog = <<[RunEntry("Ok", Durable, applied) EXCEPT !.at = "begin"]>>

MigNext ==
    \/ MigrateStart
    \/ MigrateReturn
    \/ BeginTransaction
    \/ ReadRevision
    \/ ExecuteMigration
    \/ UpdateRevision
    \/ CommitStep
    \/ Crash

(***************************************************************************)
(* git.rs: checkout, BranchGuard, using_branch, pull                       *)
(***************************************************************************)
\* Branches of the git repository.
GitBranches == {"main", "a", "b"}

\* git checkout <branch>: the working copy moves only when the command succeeds.
Checkout(h, branch, ok) == IF ok THEN branch ELSE h

NoGuard == [original_branch |-> {}]

\* BranchGuard { git_root, original_branch: Some(branch.to_owned()) }: the guard
\* is built from using_branch's argument; _original_branch is not used.
NewGuard(original, branch) == [original_branch |-> {branch}]

\* release_impl reading the original branch without taking it, and
\* release_impl keeping quiet about a failed checkout.
ReleaseImpl_Kept(g, h, ok) ==
    IF g.original_branch = {}
    THEN [guard |-> g, head |-> h, err |-> TRUE, checkouts |-> 0]
    ELSE [guard |-> g,
          head |-> Checkout(h, CHOOSE x \in g.original_branch : TRUE, ok),
          err |-> ~ok,
          checkouts |-> 1]

ReleaseImpl_Swallowed(g, h, ok) ==
    IF g.original_branch = {}
    THEN [guard |-> g, head |-> h, err |-> FALSE, checkouts |-> 0]
    ELSE [guard |-> [g EXCEPT !.original_branch = {}],
          head |-> Checkout(h, CHOOSE x \in g.original_branch : TRUE, ok),
          err |-> FALSE,
          checkouts |-> 1]

\* BranchGuard::release_impl: take() the original branch and check it out.
ReleaseImpl(g, h, ok) ==
    IF g.original_branch = {}
    THEN [guard |-> g, head |-> h, err |-> TRUE, checkouts |-> 0]
    ELSE
        LET original_branch == CHOOSE x \in g.original_branch : TRUE
        IN  [guard |-> [g EXCEPT !.original_branch = {}],
             head |-> Checkout(h, original_branch, ok),
             err |-> ~ok,
             checkouts |-> 1]

\* A drop that leaves the working copy where it is.
DropGuard_Forgets(g, h, ok) == [guard |-> NoGuard, head |-> h, err |-> FALSE, checkouts |-> 0]

\* Drop for BranchGuard: release_impl only if original_branch.is_some(); its
\* error becomes a panic.
DropGuard(g, h, ok) ==
    IF g.original_branch # {}
    THEN [ReleaseImpl(g, h, ok) EXCEPT !.guard = NoGuard]
    ELSE [guard |-> NoGuard, head |-> h, err |-> FALSE, checkouts |-> 0]

\* pull returns.
PullEnds(result) ==
    /\ gpc' = "returned"
    /\ gresult' = result

\* pull(git_root, origin, branch) is called.
PullBegin ==
    /\ gpc = "idle"
    /\ GitFrame
    /\ \E branch \in GitBranches :
        /\ target' = branch
        /\ startHead' = head
        /\ gpc' = "checkout"
        /\ guard' = NoGuard
        /\ pullStatus' = "none"
        /\ gresult' = "none"
        /\ restores' = 0
        /\ checkoutFailed' = FALSE
        /\ acquired' = FALSE
        /\ UNCHANGED head

\* using_branch: checkout(git_root, branch)?
UsingBranchCheckout ==
    /\ gpc = "checkout"
    /\ GitFrame
    /\ \E ok \in BOOLEAN :
        /\ head' = Checkout(head, target, ok)
        /\ checkoutFailed' = ~ok
        /\ IF ok THEN gpc' = "current" /\ UNCHANGED gresult ELSE PullEnds("Err")
        /\ UNCHANGED <<guard, target, startHead, pullStatus, restores, acquired>>

\* using_branch: let _original_branch = get_current_branch(git_root)?, then the guard.
UsingBranchGuard ==
    /\ gpc = "current"
    /\ GitFrame
    /\ \E ok \in BOOLEAN :
        /\ IF ok
           THEN /\ guard' = NewGuard(head, target)
                /\ acquired' = TRUE
                /\ gpc' = "pull"
                /\ UNCHANGED gresult
           ELSE /\ PullEnds("Err")
                /\ UNCHANGED <<guard, acquired>>
        /\ UNCHANGED <<head, target, startHead, pullStatus, restores, checkoutFailed>>

\* Command::new("git").args(["pull", ...]).status()?: the command cannot be run
\* (the guard is dropped on the way out), or it exits with a status.
PullCommand ==
    /\ gpc = "pull"
    /\ GitFrame
    /\ \E outcome \in {"spawn_failed", "success", "failure"}, ok \in BOOLEAN :
        IF outcome = "spawn_failed"
        THEN LET d == DropGuard(guard, head, ok)
             IN  /\ guard' = d.guard
                 /\ head' = d.head
                 /\ restores' = restores + d.checkouts
                 /\ checkoutFailed' = (checkoutFailed \/ (d.checkouts = 1 /\ ~ok))
                 /\ PullEnds(IF d.err THEN "Panic" ELSE "Err")
                 /\ UNCHANGED <<target, startHead, pullStatus, acquired>>
        ELSE /\ pullStatus' = outcome
             /\ gpc' = "release"
             /\ UNCHANGED <<head, guard, target, startHead, gresult, restores,
                            checkoutFailed, acquired>>

\* guard.release()?: release_impl, then the consumed guard is dropped.
ReleaseGuard ==
    /\ gpc = "release"
    /\ GitFrame
    /\ \E ok \in BOOLEAN, okDrop \in BOOLEAN :
        LET r == ReleaseImpl(guard, head, ok)
            d == DropGuard(r.guard, r.head, okDrop)
        IN  /\ guard' = d.guard
            /\ head' = d.head
            /\ restores' = restores + r.checkouts + d.checkouts
            /\ checkoutFailed' = (checkoutFailed \/ (r.checkouts = 1 /\ ~ok)
                                   \/ (d.checkouts = 1 /\ ~okDrop))
            /\ IF d.err THEN PullEnds("Panic")
               ELSE IF r.err THEN PullEnds("Err")
               ELSE gpc' = "status" /\ UNCHANGED gresult
            /\ UNCHANGED <<target, startHead, pullStatus, acquired>>

\* check_status(status)?; Ok(())
CheckStatus ==
    /\ gpc = "status"
    /\ GitFrame
    /\ PullEnds(IF pullStatus = "success" THEN "Ok" ELSE "Err")
    /\ UNCHANGED <<head, guard, target, startHead, pullStatus, restores, checkoutFailed,
                   acquired>>

\* The caller has pull's result.
PullReturn ==
    /\ gpc = "returned"
    /\ GitFrame
    /\ gpc' = "idle"
    /\ UNCHANGED <<head, guard, target, startHead, pullStatus, gresult, restores,
                   checkoutFailed, acquired>>

GitInit ==
    /\ head \in GitBranches
    /\ gpc = "idle"
    /\ guard = NoGuard
    /\ target = head
    /\ startHead = head
    /\ pullStatus = "none"
    /\ gresult = "none"
    /\ restores = 0
    /\ checkoutFailed = FALSE
    /\ acquired = FALSE

\* No git command runs.
GitQuiet == GitInit /\ head = "main"

GitNext ==
    \/ PullBegin
    \/ UsingBranchCheckout
    \/ UsingBranchGuard
    \/ PullCommand
    \/ ReleaseGuard
    \/ CheckStatus
    \/ PullReturn

(***************************************************************************)
(* The commands (src/src/main.rs)                                          *)
(*                                                                         *)
(* main opens one transaction, runs the command on it, and commits only    *)
(* when the command returned Ok.  The store a command sees is the rows of  *)
(* the branches table and the remote of repo_info.  The git operations a   *)
(* command asks for are logged in issued, each with its outcome.           *)
(***************************************************************************)
CmdNames == {"main", "a", "b", "c"}

Remotes == {"origin", "upstream"}

Store(tbl, rem) == [branches |-> tbl, remote |-> rem]

\* Transaction::get_remote: the remote of repo_info, None without a row.
TxGetRemote(st) == st.remote

\* Transaction::set_remote: INSERT OR REPLACE INTO repo_info (id, remote).
TxSetRemote(st, name) == [st EXCEPT !.remote = {name}]

\* Transaction::set_root_branch: the checks and writes of set_root_branch, on
\* the command's transaction.
TxSetRootBranch(st, root_branch, fault) ==
    LET r == SetRootBranch(st.branches, root_branch, fault)
    IN  [st |-> [st EXCEPT !.branches = r.table], err |-> r.err]

\* Transaction::create_branch: the checks and the insert of create_branch, on
\* the command's transaction.
TxCreateBranch(st, current_branch, new_branch, fault) ==
    LET r == CreateBranch(st.branches, current_branch, new_branch, fault)
    IN  [st |-> [st EXCEPT !.branches = r.table], err |-> r.err]

\* Transaction::get_branches_in_stack: the query of get_branches_in_stack.
TxGetBranchesInStack(st, current_branch) == GetBranchesInStack(st.branches, current_branch)

MainCommit_Always(before, pending, result, commitOk) == pending

\* main: match command { ... }?; tx.commit()?;  An Err leaves main through the
\* `?` and drops the transaction, which rolls it back; so does a failing commit.
MainCommit(before, pending, result, commitOk) ==
    IF result = "Ok" /\ commitOk THEN pending ELSE Rollback(before, pending)

\* What main returns.
MainResult(result, commitOk) ==
    IF result = "Ok" /\ ~commitOk THEN "Err" ELSE result

\* BranchGuard::new(git_root, original_branch): a guard holding the branch it
\* is given; no checkout.
BranchGuardNew(original_branch) == [original_branch |-> {original_branch}]

\* git::pull as one call: the outcome of its steps under one of the failures
\* it can meet.
PullFaults == {"none", "checkout", "current", "spawn", "spawn_restore", "failure",
               "release"}

Pull(h, branch, f) ==
    IF f = "checkout"
    THEN [head |-> Checkout(h, branch, FALSE), result |-> "Err"]
    ELSE
        LET h1 == Checkout(h, branch, TRUE)
            g == NewGuard(h1, branch)
        IN  IF f = "current" THEN [head |-> h1, result |-> "Err"]
            ELSE IF f \in {"spawn", "spawn_restore"}
            THEN LET d == DropGuard(g, h1, f = "spawn")
                 IN  [head |-> d.head, result |-> IF d.err THEN "Panic" ELSE "Err"]
            ELSE LET r == ReleaseImpl(g, h1, f # "release")
                 IN  [head |-> r.head,
                      result |-> IF r.err \/ f = "failure" THEN "Err" ELSE "Ok"]

\* git::rebase: `git rebase <parent_branch> <branch>` switches to branch and
\* replays it; a failing run may stop before or after the switch.
RebaseFaults == {"none", "before_switch", "after_switch"}

Rebase(h, branch, f) ==
    [head |-> IF f = "before_switch" THEN h ELSE branch,
     result |-> IF f = "none" THEN "Ok" ELSE "Err"]

\* git::push_branch: `git push --force-with-lease <remote> refs/heads/x:refs/heads/x`
\* leaves the working copy alone.
PushFaults == {"none", "failure"}

PushBranch(h, f) == [head |-> h, result |-> IF f = "none" THEN "Ok" ELSE "Err"]

\* One git operation of a command's loop: what is run, on which remote or
\* parent (a), for which branch (b).
GitOp(op, a, b) == [op |-> op, a |-> a, b |-> b]

\* restack: for branch in stack { git::rebase(&repo_root, &branch.parent, &branch.name)?; }
RestackPlan(stack) ==
    [i \in 1..Len(stack) |-> GitOp("rebase", stack[i].parent, stack[i].name)]

\* sync: for branch in stack { git::pull(.., &remote, &branch.name)?;
\*                             git::rebase(.., &branch.parent, &branch.name)?; }
SyncMembers(remote_name, stack) ==
    [i \in 1..(2 * Len(stack)) |->
        IF i % 2 = 1
        THEN GitOp("pull", remote_name, stack[(i + 1) \div 2].name)
        ELSE GitOp("rebase", stack[i \div 2].parent, stack[i \div 2].name)]

SyncPlan_NoRootPull(remote_name, root_branch, stack) == SyncMembers(remote_name, stack)

\* sync: git::pull(&repo_root, &remote, &root_branch)?; then the members.
SyncPlan(remote_name, root_branch, stack) ==
    <<GitOp("pull", remote_name, root_branch)>> \o SyncMembers(remote_name, stack)

\* submit: git::push_branch(&repo_root, "origin", &branch.name)
PushRemote(remote_name) == "origin"

\* submit: for branch in stack { git::push_branch(..)?; println!(new_pr_url) }
SubmitPlan(remote_name, stack) ==
    [i \in 1..Len(stack) |-> GitOp("push", PushRemote(remote_name), stack[i].name)]

\* remote.new_pr_url(&branch.parent, &branch.name): the compare link of a member.
NewPrUrl(branch) == [base |-> branch.parent, compare |-> branch.name]

LinksAfterPush_Always(printed, branch, result) == Append(printed, NewPrUrl(branch))

\* submit: the link is printed after push_branch(..)? let the loop go on.
LinksAfterPush(printed, branch, result) ==
    IF result = "Ok" THEN Append(printed, NewPrUrl(branch)) ELSE printed

CascadeHalts_Never(result) == FALSE

\* The `?` after each git operation of a loop: anything but Ok leaves the command.
CascadeHalts(result) == result # "Ok"

SyncConfigured_Unchecked(rem, root_branch) == TRUE

\* sync: let Some(remote) = tx.get_remote()? else { bail! };
\*       let Some(root_branch) = tx.get_root_branch()? else { bail! };
SyncConfigured(rem, root_branch) == rem # {} /\ root_branch # NULL

\* The name in an Option<String>.
Unwrap(opt) == IF opt = {} THEN NULL ELSE CHOOSE x \in opt : TRUE

\* track: match &track_opt.parent { Some(parent) => parent.clone(), None => root_branch }
TrackParent(parentArg, root_branch) ==
    IF parentArg = NULL THEN root_branch ELSE parentArg

TrackAllowed_Unchecked(is_ancestor) == TRUE

\* track: if !git::is_ancestor_of(&repo_root, &parent, &current_branch)? { bail! }
TrackAllowed(is_ancestor) == is_ancestor

\* The command as main sees it: its name and arguments, the branch and the
\* store it began with, and the store error it met.
Command(name, a, b, start, before, err) ==
    [name |-> name, a |-> a, b |-> b, start |-> start, before |-> before, err |-> err,
     is_ancestor |-> TRUE]

NoCommand == Command("none", NULL, NULL, NULL, Store(<<>>, {}), "Ok")

\* An operation of the loop with its outcome.
Issued(op, result) == [op |-> op.op, a |-> op.a, b |-> op.b, result |-> result]

\* A command that only reads and writes the store ends in one step.
CmdEnds(c, st, result) ==
    /\ cmd' = c
    /\ branches' = st.branches
    /\ remote' = st.remote
    /\ cresult' = result
    /\ cpc' = "done"
    /\ UNCHANGED <<cstack, plan, issued, links, cguard, crestoreFailed>>

\* A command with a loop starts.
CmdStarts(c, g, stack, ops) ==
    /\ cmd' = c
    /\ cguard' = g
    /\ cstack' = stack
    /\ plan' = ops
    /\ cresult' = "Ok"
    /\ cpc' = IF ops = <<>> THEN "drop" ELSE "loop"
    /\ UNCHANGED <<branches, remote, head, issued, links, crestoreFailed>>

\* A command leaves before its loop, its guard still to be dropped.
CmdBails(c, g, result) ==
    /\ cmd' = c
    /\ cguard' = g
    /\ cresult' = result
    /\ cpc' = "drop"
    /\ UNCHANGED <<branches, remote, head, cstack, plan, issued, links, crestoreFailed>>

\* The loop has run op with this outcome.
LoopAdvances(op, result) ==
    /\ issued' = Append(issued, Issued(op, result))
    /\ cresult' = IF CascadeHalts(result) THEN result ELSE cresult
    /\ cpc' = IF CascadeHalts(result) \/ Len(issued) + 1 = Len(plan)
              THEN "drop" ELSE "loop"
    /\ UNCHANGED <<branches, remote, cmd, cstack, plan, cguard, crestoreFailed>>

\* The user switches branches between two commands.
UserCheckout ==
    /\ cpc = "idle"
    /\ CmdFrame
    /\ \E branch \in CmdNames \ {head} : head' = Checkout(head, branch, TRUE)
    /\ UNCHANGED <<branches, cmdVars>>

\* create, restack, submit, sync and track begin with get_current_branch()?,
\* which fails on a detached HEAD.
CurrentBranchFails ==
    /\ cpc = "idle"
    /\ CmdFrame
    /\ \E name \in {"create", "restack", "submit", "sync", "track"} :
        CmdEnds(Command(name, NULL, NULL, head, Store(branches, remote),
                        "NoCurrentBranch"),
                Store(branches, remote), "Err")
    /\ UNCHANGED head

\* init: tx.set_remote(&remote)?; tx.set_root_branch(&root_branch)?;
DoInit ==
    /\ cpc = "idle"
    /\ CmdFrame
    /\ \E remote_name \in Remotes, root_branch \in CmdNames, fault \in StoreFaults,
          commitOk \in BOOLEAN :
        LET before == Store(branches, remote)
            r == TxSetRootBranch(TxSetRemote(before, remote_name), root_branch, fault)
            result == IF r.err = "Ok" THEN "Ok" ELSE "Err"
        IN  /\ CmdEnds(Command("init", remote_name, root_branch, head, before, r.err),
                       MainCommit(before, r.st, result, commitOk),
                       MainResult(result, commitOk))
            /\ UNCHANGED head

\* create writing the store before it asks git for the branch.
Create_StoreFirst(st, current_branch, new_branch, gitOk, fault) ==
    LET r == TxCreateBranch(st, current_branch, new_branch, fault)
        op == GitOp("create_branch", current_branch, new_branch)
    IN  IF r.err # "Ok"
        THEN [st |-> r.st, head |-> current_branch, issued |-> <<>>, err |-> r.err,
              result |-> "Err"]
        ELSE IF ~gitOk
        THEN [st |-> r.st, head |-> current_branch, issued |-> <<Issued(op, "Err")>>,
              err |-> r.err, result |-> "Err"]
        ELSE [st |-> r.st, head |-> Checkout(current_branch, new_branch, TRUE),
              issued |-> <<Issued(op, "Ok")>>, err |-> r.err, result |-> "Ok"]

\* create: git::create_branch(&repo_root, &create_opt.branch)? (`git checkout -b`,
\* which leaves the working copy on the new branch), then
\* tx.create_branch(&current_branch, &create_opt.branch)?
Create(st, current_branch, new_branch, gitOk, fault) ==
    LET op == GitOp("create_branch", current_branch, new_branch)
    IN  IF ~gitOk
        THEN [st |-> st, head |-> current_branch, issued |-> <<Issued(op, "Err")>>,
              err |-> "Ok", result |-> "Err"]
        ELSE
            LET r == TxCreateBranch(st, current_branch, new_branch, fault)
            IN  [st |-> r.st,
                 head |-> Checkout(current_branch, new_branch, TRUE),
                 issued |-> <<Issued(op, "Ok")>>,
                 err |-> r.err,
                 result |-> IF r.err = "Ok" THEN "Ok" ELSE "Err"]

\* create, on the branch get_current_branch reports.
DoCreate ==
    /\ cpc = "idle"
    /\ CmdFrame
    /\ \E new_branch \in CmdNames, gitOk \in BOOLEAN, fault \in StoreFaults,
          commitOk \in BOOLEAN :
        LET before == Store(branches, remote)
            c == Create(before, head, new_branch, gitOk, fault)
            st == MainCommit(before, c.st, c.result, commitOk)
        IN  /\ Len(c.st.branches) <= MaxBranches
            /\ cmd' = Command("create", head, new_branch, head, before, c.err)
            /\ branches' = st.branches
            /\ remote' = st.remote
            /\ head' = c.head
            /\ issued' = c.issued
            /\ cresult' = MainResult(c.result, commitOk)
            /\ cpc' = "done"
            /\ UNCHANGED <<cstack, plan, links, cguard, crestoreFailed>>

\* track: the root must be configured; the parent is the argument or the root;
\* git must call it an ancestor of the current branch; then
\* tx.create_branch(&parent, &current_branch)?
DoTrack ==
    /\ cpc = "idle"
    /\ CmdFrame
    /\ \E parentArg \in CmdNames \cup {NULL}, is_ancestor \in BOOLEAN,
          fault \in StoreFaults, commitOk \in BOOLEAN :
        LET before == Store(branches, remote)
            root_branch == GetRootBranch(branches)
            parent == TrackParent(parentArg, root_branch)
            r == TxCreateBranch(before, parent, head, fault)
            result == IF r.err = "Ok" THEN "Ok" ELSE "Err"
            c == [Command("track", parentArg, head, head, before, "Ok")
                    EXCEPT !.is_ancestor = is_ancestor]
        IN  /\ Len(r.st.branches) <= MaxBranches
            /\ IF root_branch = NULL \/ ~TrackAllowed(is_ancestor)
               THEN CmdEnds(c, before, "Err")
               ELSE CmdEnds([c EXCEPT !.err = r.err],
                            MainCommit(before, r.st, result, commitOk),
                            MainResult(result, commitOk))
            /\ UNCHANGED head

\* restack: the guard, the stack of the current branch, then the loop.
RestackBegin ==
    /\ cpc = "idle"
    /\ CmdFrame
    /\ LET before == Store(branches, remote)
           c == Command("restack", NULL, NULL, head, before, "Ok")
       IN  \E stack \in TxGetBranchesInStack(before, head) :
               CmdStarts(c, BranchGuardNew(head), stack, RestackPlan(stack))

\* restack: git::rebase(&repo_root, &branch.parent, &branch.name)?
RestackStep ==
    /\ cpc = "loop"
    /\ cmd.name = "restack"
    /\ CmdFrame
    /\ LET op == plan[Len(issued) + 1]
       IN  \E f \in RebaseFaults :
               LET r == Rebase(head, op.b, f)
               IN  /\ head' = r.head
                   /\ LoopAdvances(op, r.result)
                   /\ UNCHANGED links

\* sync: the guard, the remote and the root or bail, then the pulls and rebases.
SyncBegin ==
    /\ cpc = "idle"
    /\ CmdFrame
    /\ LET before == Store(branches, remote)
           c == Command("sync", NULL, NULL, head, before, "Ok")
           root_branch == GetRootBranch(branches)
       IN  IF ~SyncConfigured(TxGetRemote(before), root_branch)
           THEN CmdBails(c, BranchGuardNew(head), "Err")
           ELSE \E stack \in TxGetBranchesInStack(before, head) :
                    CmdStarts(c, BranchGuardNew(head), stack,
                              SyncPlan(Unwrap(TxGetRemote(before)), root_branch, stack))

\* sync: git::pull(&repo_root, &remote, ..)? or git::rebase(&repo_root, .., ..)?
SyncStep ==
    /\ cpc = "loop"
    /\ cmd.name = "sync"
    /\ CmdFrame
    /\ LET op == plan[Len(issued) + 1]
       IN  /\ IF op.op = "pull"
              THEN \E f \in PullFaults :
                       LET r == Pull(head, op.b, f)
                       IN  head' = r.head /\ LoopAdvances(op, r.result)
              ELSE \E f \in RebaseFaults :
                       LET r == Rebase(head, op.b, f)
                       IN  head' = r.head /\ LoopAdvances(op, r.result)
           /\ UNCHANGED links

\* submit: without a remote it prints a hint and returns Ok(()); parse_remote
\* may fail; then the stack and the pushes.  submit makes no guard.
SubmitBegin ==
    /\ cpc = "idle"
    /\ CmdFrame
    /\ LET before == Store(branches, remote)
           c == Command("submit", NULL, NULL, head, before, "Ok")
       IN  IF TxGetRemote(before) = {}
           THEN CmdBails(c, NoGuard, "Ok")
           ELSE \E parseOk \in BOOLEAN :
                    IF ~parseOk
                    THEN CmdBails(c, NoGuard, "Err")
                    ELSE \E stack \in TxGetBranchesInStack(before, head) :
                             CmdStarts(c, NoGuard, stack,
                                       SubmitPlan(Unwrap(TxGetRemote(before)), stack))

\* submit: git::push_branch(&repo_root, "origin", &branch.name)?; println!(link)
SubmitStep ==
    /\ cpc = "loop"
    /\ cmd.name = "submit"
    /\ CmdFrame
    /\ LET op == plan[Len(issued) + 1]
           branch == cstack[Len(issued) + 1]
       IN  \E f \in PushFaults :
               LET r == PushBranch(head, f)
               IN  /\ head' = r.head
                   /\ links' = LinksAfterPush(links, branch, r.result)
                   /\ LoopAdvances(op, r.result)

\* The command's scope ends: its guard is dropped (a failing checkout panics),
\* and main commits when the command returned Ok.
ScopeEnd ==
    /\ cpc = "drop"
    /\ CmdFrame
    /\ \E ok \in BOOLEAN, commitOk \in BOOLEAN :
        LET d == DropGuard(cguard, head, ok)
            before == Store(branches, remote)
            st == MainCommit(cmd.before, before, cresult, commitOk)
        IN  /\ head' = d.head
            /\ cguard' = d.guard
            /\ crestoreFailed' = d.err
            /\ cresult' = IF d.err THEN "Panic" ELSE MainResult(cresult, commitOk)
            /\ branches' = st.branches
            /\ remote' = st.remote
            /\ cpc' = "done"
            /\ UNCHANGED <<cmd, cstack, plan, issued, links>>

CmdIdle ==
    /\ remote = {}
    /\ cpc = "idle"
    /\ cmd = NoCommand
    /\ cstack = <<>>
    /\ plan = <<>>
    /\ issued = <<>>
    /\ links = <<>>
    /\ cguard = NoGuard
    /\ cresult = "none"
    /\ crestoreFailed = FALSE

\* The process exits.
CmdReturn ==
    /\ cpc = "done"
    /\ CmdFrame
    /\ cpc' = "idle"
    /\ cmd' = NoCommand
    /\ cstack' = <<>>
    /\ plan' = <<>>
    /\ issued' = <<>>
    /\ links' = <<>>
    /\ cguard' = NoGuard
    /\ cresult' = "none"
    /\ crestoreFailed' = FALSE
    /\ UNCHANGED <<branches, remote, head>>

CmdNext ==
    \/ UserCheckout
    \/ CurrentBranchFails
    \/ DoInit
    \/ DoCreate
    \/ DoTrack
    \/ RestackBegin
    \/ RestackStep
    \/ SyncBegin
    \/ SyncStep
    \/ SubmitBegin
    \/ SubmitStep
    \/ ScopeEnd
    \/ CmdReturn

(***************************************************************************)
(* Specifications                                                          *)
(***************************************************************************)
vars == <<storeVars, migVars, gitVars, cmdVars>>

\* The store of an opened database.
Init == StoreInit /\ MigDone /\ GitQuiet /\ CmdIdle

Next == StoreNext

Spec == Init /\ [][Next]_vars

\* migrate, run again and again on one database file.
MigrateInit == StoreInit /\ MigInit /\ GitQuiet /\ CmdIdle

MigrateNext == MigNext

SpecMigrate == MigrateInit /\ [][MigrateNext]_vars

\* git::pull, called again and again from whatever branch it left.
GitStart == StoreInit /\ MigDone /\ GitInit /\ CmdIdle

SpecGit == GitStart /\ [][GitNext]_vars

\* The commands, run one after another on one repository.
CmdStart == StoreInit /\ MigDone /\ GitInit /\ CmdIdle

SpecCmd == CmdStart /\ [][CmdNext]_vars

(***************************************************************************)
(* The parent relation, read off the table row by row                      *)
(***************************************************************************)
Tracked(tbl) == {r.name : r \in Range(tbl)}

RECURSIVE AncestorsWithin(_, _, _)
AncestorsWithin(tbl, name, steps) ==
    LET p == GetParent(tbl, name)
    IN  IF steps = 0 \/ p = NULL THEN {}
        ELSE {p} \cup AncestorsWithin(tbl, p, steps - 1)

\* The proper ancestors of name, the root among them.
Ancestors(tbl, name) == AncestorsWithin(tbl, name, Len(tbl))

Descendants(tbl, name) == {x \in Tracked(tbl) : name \in Ancestors(tbl, x)}

\* Following parent links from name ends at a tracked row with a NULL parent.
RECURSIVE ReachesRoot(_, _, _)
ReachesRoot(tbl, name, steps) ==
    /\ name \in Tracked(tbl)
    /\ \/ GetParent(tbl, name) = NULL
       \/ steps > 0 /\ ReachesRoot(tbl, GetParent(tbl, name), steps - 1)

\* A linear chain root <- b1 <- ... <- bn with n >= 1.
IsChain(tbl) ==
    /\ Len(tbl) >= 2
    /\ Len(RootRows(tbl)) = 1
    /\ \A x \in Tracked(tbl) : NumChildren(tbl, x) <= 1
    /\ \A x \in Tracked(tbl) : ReachesRoot(tbl, x, Len(tbl))

\* [(b1, root), (b2, b1), ...] below name, for a chain.
RECURSIVE ChainBelow(_, _)
ChainBelow(tbl, name) ==
    LET kids == SelectSeq(tbl, LAMBDA r : r.parent = name)
    IN  IF kids = <<>> THEN <<>>
        ELSE <<Row(kids[1].name, name)>> \o ChainBelow(tbl, kids[1].name)

(***************************************************************************)
(* Claims on the branches table                                            *)
(***************************************************************************)
StackContract(tbl, b, rows) ==
    /\ \A x \in Ancestors(tbl, b) \cup Descendants(tbl, b) :
          GetParent(tbl, x) # NULL =>
              Cardinality({i \in 1..Len(rows) : rows[i] = Row(x, GetParent(tbl, x))}) = 1
    /\ \A i, j \in 1..Len(rows) : i # j => rows[i].name # rows[j].name
    /\ \A i \in 1..Len(rows) : rows[i].parent = GetParent(tbl, rows[i].name)
    /\ \A i, j \in 1..Len(rows) : rows[j].name = rows[i].parent => j < i

\* C1: on a tree built by set_root_branch and successful create_branch calls,
\* get_branches_in_stack(b) for a tracked b returns every non-root ancestor and
\* every descendant of b with its parent, no branch twice, and no branch before
\* its own parent.
C1_StackCoversAncestorsAndDescendantsInOrder ==
    (last.op = "get_branches_in_stack" /\ last.arg1 \in Tracked(branches))
        => StackContract(branches, last.arg1, last.rows)

\* The queried branch has a non-root ancestor above it and a descendant below it.
C1_Witness ==
    /\ last.op = "get_branches_in_stack"
    /\ last.arg1 \in Tracked(branches)
    /\ Cardinality(Ancestors(branches, last.arg1)) >= 2
    /\ Descendants(branches, last.arg1) # {}
    /\ Len(last.rows) = 3

\* C2: on a linear chain root <- b1 <- ... <- bn, get_branches_in_stack(bi)
\* returns exactly [(b1,root), (b2,b1), ..., (bn,b(n-1))] whichever bi is asked.
C2_ChainStackSameForEveryMember ==
    (/\ last.op = "get_branches_in_stack"
     /\ IsChain(branches)
     /\ last.arg1 \in Tracked(branches) \ {GetRootBranch(branches)})
        => last.rows = ChainBelow(branches, GetRootBranch(branches))

\* The chain main <- b1 <- b2 <- b3 asked at its middle member b2.
C2_Witness ==
    /\ last.op = "get_branches_in_stack"
    /\ IsChain(branches)
    /\ Len(branches) = 4
    /\ last.arg1 = branches[3].name
    /\ Len(last.rows) = 3

\* C3: in every reachable state at most one tracked branch has a NULL parent.
C3_AtMostOneRoot == Len(RootRows(branches)) <= 1

\* A root was replaced by another one.
C3_Witness ==
    /\ last.op = "set_root_branch"
    /\ last.err = "Ok"
    /\ last.before # <<>>
    /\ last.before # branches

\* C4: every non-NULL parent is a tracked branch, and parent links from any
\* tracked branch end at the root after finitely many steps.
C4_ParentsFormForest ==
    /\ \A r \in Range(branches) : r.parent # NULL => r.parent \in Tracked(branches)
    /\ \A x \in Tracked(branches) : ReachesRoot(branches, x, Len(branches))

\* A branch three levels below the root:
\* the deepest tree the bound allows, just extended by create_branch.
C4_Witness ==
    /\ last.op = "create_branch"
    /\ last.err = "Ok"
    /\ Cardinality(Ancestors(branches, last.arg2)) = 3

\* C5: set_root_branch called while the existing root has a child returns an
\* error and leaves the table as it was.
C5_RootWithChildrenNotReplaced ==
    (/\ last.op = "set_root_branch"
     /\ NumChildren(last.before, GetRootBranch(last.before)) >= 1)
        => (last.err # "Ok" /\ branches = last.before)

\* set_root_branch was refused because of the root's children.
C5_Witness ==
    /\ last.op = "set_root_branch"
    /\ last.err = "RootBranchHasChildren"
    /\ last.arg1 \notin Tracked(last.before)

\* C6: create_branch(parent, child) with an untracked parent returns an error
\* and inserts no row.
C6_UntrackedParentRejected ==
    (last.op = "create_branch" /\ last.arg1 \notin Tracked(last.before))
        => (last.err # "Ok" /\ branches = last.before)

\* create_branch was refused on a table that has rows, for a new name.
C6_Witness ==
    /\ last.op = "create_branch"
    /\ last.err = "UntrackedParent"
    /\ last.before # <<>>
    /\ last.arg2 \notin Tracked(last.before)

(***************************************************************************)
(* Claims on migrate                                                       *)
(***************************************************************************)
\* Option<usize> as a number: None below every ordinal.
RevisionNumber(current) == IF current = {} THEN -1 ELSE CHOOSE c \in current : TRUE

\* C7: a migrate run right after a run that returned Ok applies no step, meets
\* no SQL error, and leaves the same applied steps, schema and current_revision.
C7_MigrateTwiceSameAsOnce ==
    \A i \in 1..(Len(runLog) - 1) :
        runLog[i].result = "Ok" =>
            /\ runLog[i + 1].result # "SqlError"
            /\ runLog[i + 1].applied = runLog[i].applied
            /\ runLog[i + 1].schema = runLog[i].schema
            /\ runLog[i + 1].current_revision = runLog[i].current_revision

\* The first run applied all three steps and the second run returned Ok too.
C7_Witness ==
    /\ Len(runLog) >= 2
    /\ runLog[1].result = "Ok"
    /\ Len(runLog[1].applied) = NumMigrations
    /\ runLog[2].result = "Ok"

\* C8: over any sequence of runs, failing ones included, a step is committed at
\* most once, after every lower step, only when the recorded revision is the
\* one before it (absent for step 0), and the recorded revision never decreases.
C8_StepsOnceInOrder ==
    [][/\ RevisionNumber(current_revision') >= RevisionNumber(current_revision)
       /\ applied' # applied =>
            \E k \in 0..(NumMigrations - 1) :
                /\ applied' = Append(applied, k)
                /\ k \notin Range(applied)
                /\ \A j \in Range(applied) : j < k
                /\ RevisionNumber(current_revision) = k - 1
                /\ current_revision' = {k}]_vars

\* A run that failed after committing some steps, and a later run that
\* committed the rest.
C8_Witness ==
    /\ applied = <<0, 1, 2>>
    /\ \E i \in 1..Len(runLog) :
        /\ runLog[i].result \in {"SqliteFailure", "Crash"}
        /\ Len(runLog[i].applied) \in {1, 2}
        /\ i > 1 => Len(runLog[i - 1].applied) < Len(runLog[i].applied)

\* C9: a step that fails partway is rolled back and the steps committed before
\* it stay: the recorded current_revision is the ordinal of the last committed
\* step, and the schema holds exactly the steps 0..current_revision.
C9_FailedStepRolledBack ==
    /\ current_revision = IF applied = <<>> THEN {} ELSE {applied[Len(applied)]}
    /\ Range(applied) = 0..RevisionNumber(current_revision)
    /\ schema \ {"migration"} =
          {MigrationObject(k) : k \in 0..RevisionNumber(current_revision)}

\* Step 1 failed at its commit, after its statement and the revision update had
\* run, with step 0 committed before it.
C9_Witness ==
    /\ runLog # <<>>
    /\ runLog[Len(runLog)].result = "SqliteFailure"
    /\ runLog[Len(runLog)].at = "commit"
    /\ runLog[Len(runLog)].step = 1
    /\ applied = <<0>>
    /\ mpc = "idle"

(***************************************************************************)
(* Claims on the checkout guard                                            *)
(***************************************************************************)
\* C10: the guard of using_branch(target), taken while the working copy is on
\* O, records O, and once the guard has switched back (no checkout failing)
\* pull returns, with success or failure, with the working copy on O.
C10_GuardRestoresOriginalBranch ==
    /\ guard.original_branch # {} => guard.original_branch = {startHead}
    /\ (gpc = "returned" /\ restores > 0 /\ ~checkoutFailed) => head = startHead

\* C11: a guard issues at most one restoring checkout.  Once using_branch has
\* built the guard, pull ends with exactly one checkout by the guard, whether
\* release() ran it (and succeeded or failed) or the drop did; the drop that
\* follows a release() issues none.  Without a guard there is none.
C11_AtMostOneRestoringCheckout ==
    /\ restores <= 1
    /\ ~acquired => restores = 0
    /\ (acquired /\ gpc \in {"status", "returned"}) => restores = 1
    /\ (acquired /\ gpc \in {"pull", "release"}) => restores = 0

\* release() failed its checkout and the drop after it issued no other.
C11_Witness ==
    /\ gpc = "returned"
    /\ acquired
    /\ pullStatus # "none"
    /\ checkoutFailed
    /\ gresult = "Err"
    /\ restores = 1

\* C12: a restoring checkout that fails is reported.  When release() ran it,
\* pull returns the error; when the drop ran it, pull panics; pull never
\* returns Ok after it.
C12_FailedRestoreIsReported ==
    (gpc \in {"status", "returned"} /\ restores >= 1 /\ checkoutFailed) =>
        /\ gpc = "returned"
        /\ gresult = IF pullStatus = "none" THEN "Panic" ELSE "Err"

\* `git pull` could not be run and the checkout of the dropped guard failed.
C12_Witness ==
    /\ gpc = "returned"
    /\ acquired
    /\ pullStatus = "none"
    /\ restores = 1
    /\ checkoutFailed
    /\ gresult = "Panic"

(***************************************************************************)
(* The commands' loops                                                     *)
(***************************************************************************)
\* A command is past its start and has not returned to the shell.
Running(name) == cmd.name = name /\ cmd.err # "NoCurrentBranch" /\ cpc # "idle"

\* The command's loop is over.
LoopOver == cpc \in {"drop", "done"}

\* Every operation issued but the last succeeded, and the loop went on to
\* the end of wanted unless the last one failed.
HaltsAtFirstFailure(wanted) ==
    /\ Len(issued) <= Len(wanted)
    /\ \A i \in 1..Len(issued) :
        /\ GitOp(issued[i].op, issued[i].a, issued[i].b) = wanted[i]
        /\ i < Len(issued) => issued[i].result = "Ok"
    /\ LoopOver =>
        IF issued # <<>> /\ issued[Len(issued)].result # "Ok"
        THEN cresult = IF crestoreFailed THEN "Panic" ELSE issued[Len(issued)].result
        ELSE Len(issued) = Len(wanted)

\* The chain main <- a <- b <- c.
Chain4 == <<Row("main", NULL), Row("a", "main"), Row("b", "a"), Row("c", "b")>>

C14_SyncPullsRootThenMembersAndHalts ==
    (Running("sync") /\ cmd.before.remote # {}) =>
        LET remote_name == CHOOSE x \in cmd.before.remote : TRUE
            root_branch == GetRootBranch(cmd.before.branches)
        IN  /\ cstack \in GetBranchesInStack(cmd.before.branches, cmd.start)
            /\ HaltsAtFirstFailure(
                   [i \in 1..(1 + 2 * Len(cstack)) |->
                       IF i = 1 THEN GitOp("pull", remote_name, root_branch)
                       ELSE IF i % 2 = 0
                       THEN GitOp("pull", remote_name, cstack[i \div 2].name)
                       ELSE GitOp("rebase", cstack[(i - 1) \div 2].parent,
                                  cstack[(i - 1) \div 2].name)])

\* On the chain, sync from a pulled main, pulled a and rebased it onto main,
\* then failed to pull b, and ended there with that failure.
C14_Witness ==
    /\ Running("sync")
    /\ cpc = "done"
    /\ cmd.before = Store(Chain4, {"upstream"})
    /\ cmd.start = "a"
    /\ issued = <<Issued(GitOp("pull", "upstream", "main"), "Ok"),
                  Issued(GitOp("pull", "upstream", "a"), "Ok"),
                  Issued(GitOp("rebase", "main", "a"), "Ok"),
                  Issued(GitOp("pull", "upstream", "b"), "Err")>>
    /\ cresult = "Err"

\* C15: restack and sync leave the working copy where they found it.  Once
\* the command is over, however far its loop got and however it ended, the
\* working copy is on the branch the command started on, unless the checkout
\* of the command's guard failed.
C15_CommandReturnsToStartingBranch ==
    (cmd.name \in {"restack", "sync"} /\ cpc = "done" /\ ~crestoreFailed) =>
        head = cmd.start

\* sync from a went through the whole chain, its last rebase left the working
\* copy on c, and the guard brought it back to a.
C15_Witness ==
    /\ Running("sync")
    /\ cpc = "done"
    /\ cmd.before.branches = Chain4
    /\ cmd.start = "a"
    /\ Len(issued) = 7
    /\ issued[7] = Issued(GitOp("rebase", "b", "c"), "Ok")
    /\ ~crestoreFailed
    /\ head = "a"

(***************************************************************************)
(* The commands' writes                                                    *)
(***************************************************************************)
\* C16: track takes as parent its argument or, without one, the configured
\* root.  When git does not call the parent an ancestor of the current branch
\* track fails and the store is as it was.  Whenever track changes the table
\* it appends the one row (current branch, parent), git called the parent an
\* ancestor, the parent was tracked and the current branch was not; and a
\* track that returns Ok has appended that row.
C16_TrackRecordsOneRowUnderAncestorParent ==
    (Running("track") /\ cpc = "done") =>
        LET before == cmd.before.branches
            parent == IF cmd.a = NULL THEN GetRootBranch(before) ELSE cmd.a
            recorded == Append(before, Row(cmd.start, parent))
        IN  /\ remote = cmd.before.remote
            /\ ~cmd.is_ancestor => (cresult = "Err" /\ branches = before)
            /\ branches # before =>
                   /\ branches = recorded
                   /\ cmd.is_ancestor
                   /\ parent \in Tracked(before)
                   /\ cmd.start \notin Tracked(before)
            /\ cresult = "Ok" => branches = recorded

\* On branch b, track with parent a recorded (b, a) under main <- a.
C16_Witness ==
    /\ Running("track")
    /\ cpc = "done"
    /\ cmd.a = "a"
    /\ cmd.start = "b"
    /\ cmd.is_ancestor
    /\ cmd.before.branches = <<Row("main", NULL), Row("a", "main")>>
    /\ branches = <<Row("main", NULL), Row("a", "main"), Row("b", "a")>>
    /\ cresult = "Ok"

\* The store is as the command found it.
StoreUntouched == Store(branches, remote) = cmd.before

\* C17: without its configuration a command stops before it asks git for
\* anything and writes nothing.  sync without a remote or without a root
\* branch issues no pull and no rebase and fails; submit without a remote
\* issues no push and prints no link; the store stays as it was.
C17_UnconfiguredCommandDoesNothing ==
    /\ (Running("sync") /\ (cmd.before.remote = {}
                             \/ GetRootBranch(cmd.before.branches) = NULL)) =>
           /\ issued = <<>>
           /\ StoreUntouched
           /\ cresult \in {"Err", "Panic"}
    /\ (Running("submit") /\ cmd.before.remote = {}) =>
           /\ issued = <<>>
           /\ links = <<>>
           /\ StoreUntouched

\* sync has ended in a repository that was never initialised.
C17_Witness ==
    /\ Running("sync")
    /\ cpc = "done"
    /\ cmd.before.remote = {}
    /\ issued = <<>>
    /\ cresult = "Err"

(***************************************************************************)
(* submit                                                                  *)
(***************************************************************************)
\* C18: every push of submit goes to the remote that init stored.
C18_PushTargetsConfiguredRemote ==
    Running("submit") =>
        \A i \in 1..Len(issued) :
            issued[i].op = "push" => {issued[i].a} = cmd.before.remote

\* The pushes that succeeded so far.
NumPushed == Len(SelectSeq(issued, LAMBDA o : o.result = "Ok"))

\* C19: submit pushes the members of the stack in its order; every push but
\* the last succeeded, and after a failed push the loop is over.  The links
\* printed are those of the members whose push succeeded, in the same order:
\* none for the member whose push failed, none for the members after it.
\* Nothing but pushes is issued, so what was pushed stays pushed.
C19_SubmitPushesInOrderLinksAfterSuccess ==
    Running("submit") =>
        /\ cstack # <<>> => cstack \in GetBranchesInStack(cmd.before.branches, cmd.start)
        /\ Len(issued) <= Len(cstack)
        /\ \A i \in 1..Len(issued) :
            /\ issued[i].op = "push"
            /\ issued[i].b = cstack[i].name
            /\ i < Len(issued) => issued[i].result = "Ok"
        /\ links = [i \in 1..NumPushed |->
                       [base |-> cstack[i].parent, compare |-> cstack[i].name]]
        /\ (issued # <<>> /\ issued[Len(issued)].result # "Ok") =>
               (LoopOver /\ cresult = "Err")
        /\ (LoopOver /\ cresult = "Ok") => Len(issued) = Len(cstack)

\* On the chain, submit from c pushed a and b and printed their links, then
\* failed to push c and ended.
C19_Witness ==
    /\ Running("submit")
    /\ cpc = "done"
    /\ cmd.before.branches = Chain4
    /\ cmd.start = "c"
    /\ Len(issued) = 3
    /\ issued[2].result = "Ok"
    /\ issued[3].b = "c"
    /\ issued[3].result = "Err"
    /\ links = <<[base |-> "main", compare |-> "a"], [base |-> "a", compare |-> "b"]>>
    /\ cresult = "Err"

Linked(tbl, x, y) ==
    \E r \in Range(tbl) : (r.name = x /\ r.parent = y) \/ (r.name = y /\ r.parent = x)

RECURSIVE ComponentWithin(_, _, _)
ComponentWithin(tbl, members, steps) ==
    IF steps = 0 THEN members
    ELSE ComponentWithin(tbl,
                         members \cup {n \in Tracked(tbl) :
                                          \E m \in members : Linked(tbl, n, m)},
                         steps - 1)

\* The branches joined to name by parent links followed in either direction.
Component(tbl, name) == ComponentWithin(tbl, {name}, Len(tbl))

\* C22: for a tracked branch b the names get_branches_in_stack(b) returns are
\* the branches of b's connected component under parent links taken in either
\* direction, the root left out: siblings and cousins of b are among them, the
\* root and branches outside the component never.  For an untracked b the
\* result is empty.
C22_StackIsComponentWithoutRoot ==
    last.op = "get_branches_in_stack" =>
        {last.rows[i].name : i \in 1..Len(last.rows)} =
            IF last.arg1 \in Tracked(last.before)
            THEN Component(last.before, last.arg1) \ {GetRootBranch(last.before)}
            ELSE {}

\* The result for a tracked branch holds a branch that is neither above nor
\* below it, and one that hangs under such a branch.
C22_Witness ==
    /\ last.op = "get_branches_in_stack"
    /\ last.arg1 \in Tracked(branches) \ {GetRootBranch(branches)}
    /\ \E i, j \in 1..Len(last.rows) :
        /\ last.rows[i].name \notin
               Ancestors(branches, last.arg1) \cup Descendants(branches, last.arg1)
                 \cup {last.arg1}
        /\ last.rows[j].parent = last.rows[i].name

(***************************************************************************)
(* create                                                                  *)
(***************************************************************************)
\* git made the new branch for this create.
BranchMade == issued = <<Issued(GitOp("create_branch", cmd.start, cmd.b), "Ok")>>

\* C21: create asks git for the new branch before it writes the store.  A
\* create that returns Ok has appended the one row (new, branch it started
\* on).  The table changes only after git made the branch.  When git made the
\* branch and the store write is refused (the starting branch is untracked,
\* or new is already tracked), create fails with the table as it was, the
\* working copy on the new branch, and nothing issued to take the branch
\* away.  When git fails no store write is tried.
C21_CreateMakesBranchThenRow ==
    (Running("create") /\ cpc = "done") =>
        LET before == cmd.before.branches
        IN  /\ Len(issued) = 1
            /\ issued[1].op = "create_branch"
            /\ issued[1].b = cmd.b
            /\ cresult = "Ok" =>
                   (BranchMade /\ branches = Append(before, Row(cmd.b, cmd.start)))
            /\ branches # before => (BranchMade /\ cresult = "Ok")
            /\ (BranchMade /\ (cmd.start \notin Tracked(before)
                                \/ cmd.b \in Tracked(before))) =>
                   /\ cresult = "Err"
                   /\ cmd.err \in {"UntrackedParent", "BranchAlreadyTracked",
                                    "SqliteFailure"}
                   /\ branches = before
                   /\ head = cmd.b
            /\ ~BranchMade =>
                   (cresult = "Err" /\ cmd.err = "Ok" /\ branches = before
                    /\ head = cmd.start)

\* On the untracked branch c, create b: git made b, the store refused the row.
C21_Witness ==
    /\ Running("create")
    /\ cpc = "done"
    /\ BranchMade
    /\ cmd.start = "c"
    /\ cmd.b = "b"
    /\ cmd.err = "UntrackedParent"
    /\ cmd.before.branches = <<Row("main", NULL), Row("a", "main")>>
    /\ branches = cmd.before.branches
    /\ head = "b"
    /\ cresult = "Err"

=============================================================================
